---- MODULE Spec2Model ----
(***************************************************************************)
(* S-104 Data Coding Format 8 generator (S104GeneratorDCF8, s104.py):      *)
(* trend classifier, trend series generator, data array formatter and     *)
(* binary layout writer.                                                   *)
(*                                                                         *)
(* Floats are modelled exactly: a float is either NaN (the empty tuple)   *)
(* or a rational <<num, den>> with den > 0.  Water level heights are the  *)
(* integral floats <<h, 1>>.  A pandas DataFrame is a record              *)
(*   [index, columns, values]  with values a sequence of rows.            *)
(***************************************************************************)
EXTENDS Integers, Sequences, FiniteSets, TLC

(* ---------------------------- bounds ----------------------------------- *)
MaxRows == 2
MaxCols == 2
MaxTrendRows == 4
MaxSlope == 30

(* ---------------------------- floats ----------------------------------- *)
NaN == <<>>
Real(n) == <<n, 1>>
Rat(n, d) == <<n, d>>
isnan(x) == x = NaN
\* IEEE comparisons: every comparison with NaN is false
Gt(a, b) == (~isnan(a)) /\ (~isnan(b)) /\ a[1] * b[2] > b[1] * a[2]
Lt(a, b) == (~isnan(a)) /\ (~isnan(b)) /\ a[1] * b[2] < b[1] * a[2]
Neg(a) == IF isnan(a) THEN NaN ELSE <<(0 - a[1]), a[2]>>

(* ---------------------------- constants -------------------------------- *)
FillValue == Real(-9999)
DefaultThreshold == Rat(2, 10)
product_id == "WaterLevel"
\* the four data-type keys
Types == {"wlo", "wlf", "wlp", "spine"}
EnumCodes == {1, 2, 3, 4, 5, 6, 7, 9, 10}

(* ---------------------------- DataFrames ------------------------------- *)
EmptyFrame == [index |-> <<>>, columns |-> <<>>, values |-> <<>>]
NRows(df) == Len(df.index)
NCols(df) == Len(df.columns)
empty(df) == NRows(df) = 0 \/ NCols(df) = 0
Cell(df, r, c) == df.values[r][c]

\* Python's builtin max / min over a non-empty list: keep the first item and
\* replace it only when a later item compares greater / less.
RECURSIVE PyMaxFrom(_, _, _)
PyMaxFrom(s, cur, j) ==
    IF j > Len(s) THEN cur
    ELSE PyMaxFrom(s, IF Gt(s[j], cur) THEN s[j] ELSE cur, j + 1)
PyMax(s) == PyMaxFrom(s, s[1], 2)

RECURSIVE PyMinFrom(_, _, _)
PyMinFrom(s, cur, j) ==
    IF j > Len(s) THEN cur
    ELSE PyMinFrom(s, IF Lt(s[j], cur) THEN s[j] ELSE cur, j + 1)
PyMin(s) == PyMinFrom(s, s[1], 2)

\* pandas reductions skip NaN and give NaN when nothing is left
RECURSIVE NanMax(_, _, _)
NanMax(s, cur, j) ==
    IF j > Len(s) THEN cur
    ELSE NanMax(s, IF isnan(cur) \/ Gt(s[j], cur) THEN
                      (IF isnan(s[j]) THEN cur ELSE s[j]) ELSE cur, j + 1)
RECURSIVE NanMin(_, _, _)
NanMin(s, cur, j) ==
    IF j > Len(s) THEN cur
    ELSE NanMin(s, IF isnan(cur) \/ Lt(s[j], cur) THEN
                      (IF isnan(s[j]) THEN cur ELSE s[j]) ELSE cur, j + 1)

Column(df, c) == [r \in 1..NRows(df) |-> Cell(df, r, c)]
\* df.max().max() and df.min().min()
FrameMax(df) ==
    NanMax([c \in 1..NCols(df) |-> NanMax(Column(df, c), NaN, 1)], NaN, 1)
FrameMin(df) ==
    NanMin([c \in 1..NCols(df) |-> NanMin(Column(df, c), NaN, 1)], NaN, 1)

\* df.fillna(v): a new frame, same index and columns
fillna(df, v) ==
    [df EXCEPT !.values =
        [r \in 1..NRows(df) |->
            [c \in 1..NCols(df) |->
                IF isnan(Cell(df, r, c)) THEN v ELSE Cell(df, r, c)]]]

(* ---------------------------- trend classifier ------------------------- *)
\* a slip in the comparisons: the thresholds themselves count as a trend
_get_flags_inclusive(x, trend_treshold) ==
    IF isnan(x) THEN 3
    ELSE IF ~Lt(x, trend_treshold) THEN 2
    ELSE IF ~Gt(x, Neg(trend_treshold)) THEN 1
    ELSE 0

_get_flags(x, trend_treshold) ==
    IF isnan(x) THEN 3
    ELSE IF Gt(x, trend_treshold) THEN 2
    ELSE IF Lt(x, Neg(trend_treshold)) THEN 1
    ELSE 0

(* ---------------------------- trend series generator ------------------- *)
RECURSIVE SumTo(_, _)
SumTo(f, n) == IF n = 0 THEN 0 ELSE f[n] + SumTo(f, n - 1)

\* scipy.stats.linregress(range(0, n), ys)[0]: the least-squares slope
\* cov(x, y) / var(x) of the window values ys (integral floats) against
\* 0..n-1; 0/0 = NaN for a single point.
linregress_slope(ys) ==
    LET n   == Len(ys)
        sx  == SumTo([j \in 1..n |-> j - 1], n)
        sxx == SumTo([j \in 1..n |-> (j - 1) * (j - 1)], n)
        sy  == SumTo([j \in 1..n |-> ys[j][1]], n)
        sxy == SumTo([j \in 1..n |-> (j - 1) * ys[j][1]], n)
        den == n * sxx - sx * sx
    IN  IF den = 0 THEN NaN ELSE Rat(n * sxy - sx * sy, den)

\* int(3600 // interval), interval the seconds between the first two rows
timestamps_per_hour(df) == 3600 \div (df.index[2] - df.index[1])

\* a slip that leaves center = True out: the window ends at row i
WindowEnd_trailing(i, w) == i
\* bounds of the centered fixed window of row i (1-based, both inclusive)
WindowEnd(i, w) == i + ((w - 1) \div 2)
WindowStart(i, w) == WindowEnd(i, w) - w + 1

\* df.rolling(w, center = True).apply(f) at row i of column c: NaN unless the
\* window lies inside the series and holds w non-missing samples
RollingSlope(df, w, i, c) ==
    LET lo == WindowStart(i, w)
        hi == WindowEnd(i, w)
    IN  IF lo < 1 \/ hi > NRows(df) THEN NaN
        ELSE IF \E r \in lo..hi : isnan(Cell(df, r, c)) THEN NaN
        ELSE linregress_slope([j \in 1..w |-> Cell(df, lo + j - 1, c)])

Raised(e) == [ok |-> FALSE, error |-> e]
Returned(v) == [ok |-> TRUE, value |-> v]

\* a slip that gives a one-row table an all-UNKNOWN trend table instead of
\* reading its second timestamp
_gen_S104_trends_short_ok(df_wl, zero_window) ==
    IF ~empty(df_wl) THEN
        LET w == IF NRows(df_wl) < 2 THEN 0 ELSE timestamps_per_hour(df_wl) IN
            IF NRows(df_wl) >= 2 /\ w = 0 /\ zero_window = "raise"
            THEN Raised("ValueError")
            ELSE Returned(
                [index |-> df_wl.index, columns |-> df_wl.columns,
                 values |-> [i \in 1..NRows(df_wl) |->
                     [c \in 1..NCols(df_wl) |->
                         _get_flags(IF w = 0 THEN NaN
                                    ELSE RollingSlope(df_wl, w, i, c),
                                    DefaultThreshold)]]])
    ELSE Returned(EmptyFrame)

\* a slip that drops the rows whose window is incomplete in every column
\* (a dropna on the slopes) before the flags are made
_gen_S104_trends_dropna(df_wl, zero_window) ==
    IF ~empty(df_wl) THEN
        IF NRows(df_wl) < 2 THEN Raised("IndexError")
        ELSE LET w == timestamps_per_hour(df_wl)
                 slope(i, c) == IF w = 0 THEN NaN
                                ELSE RollingSlope(df_wl, w, i, c)
                 keep == SelectSeq([i \in 1..NRows(df_wl) |-> i],
                            LAMBDA i : \E c \in 1..NCols(df_wl) :
                                          ~isnan(slope(i, c)))
             IN
            IF w = 0 /\ zero_window = "raise" THEN Raised("ValueError")
            ELSE Returned(
                [index |-> [j \in 1..Len(keep) |-> df_wl.index[keep[j]]],
                 columns |-> df_wl.columns,
                 values |-> [j \in 1..Len(keep) |->
                     [c \in 1..NCols(df_wl) |->
                         _get_flags(slope(keep[j], c), DefaultThreshold)]]])
    ELSE Returned(EmptyFrame)

\* zero_window: what the installed pandas does with a zero-width window
\* (interval above one hour): "raise" when linregress is called on the empty
\* window, "nan" when the window is skipped.
_gen_S104_trends(df_wl, zero_window) ==
    IF ~empty(df_wl) THEN
        IF NRows(df_wl) < 2 THEN Raised("IndexError")
        ELSE LET w == timestamps_per_hour(df_wl) IN
            IF w = 0 /\ zero_window = "raise" THEN Raised("ValueError")
            ELSE Returned(
                [index |-> df_wl.index, columns |-> df_wl.columns,
                 values |-> [i \in 1..NRows(df_wl) |->
                     [c \in 1..NCols(df_wl) |->
                         _get_flags(IF w = 0 THEN NaN
                                    ELSE RollingSlope(df_wl, w, i, c),
                                    DefaultThreshold)]]])
    ELSE Returned(EmptyFrame)

(* ---------------------------- data array formatter --------------------- *)
\* station metadata behind _gen_positions: a station code determines its
\* latitude and longitude
Lat(station) == 40 + station
Lon(station) == 0 - (60 + station)
_gen_positions(df) ==
    [lat |-> [c \in 1..NCols(df) |-> Lat(df.columns[c])],
     lon |-> [c \in 1..NCols(df) |-> Lon(df.columns[c])]]

\* dataset_max / dataset_min: the builtin max / min over the four frame
\* extrema, in the order wlp, wlf, wlo, spine
DatasetMax(df) ==
    PyMax(<<FrameMax(df["wlp"]), FrameMax(df["wlf"]),
            FrameMax(df["wlo"]), FrameMax(df["spine"])>>)
DatasetMin(df) ==
    PyMin(<<FrameMin(df["wlp"]), FrameMin(df["wlf"]),
            FrameMin(df["wlo"]), FrameMin(df["spine"])>>)

\* the value tables after fillna(-9999)
FilledTables(df) == [k \in Types |-> fillna(df[k], FillValue)]

\* a slip in the order of the appends: wlp before wlf
DatasetTypesByCall(wl) ==
    (IF ~empty(wl["wlo"]) THEN <<"wlo">> ELSE <<>>)
    \o (IF ~empty(wl["wlp"]) THEN <<"wlp">> ELSE <<>>)
    \o (IF ~empty(wl["wlf"]) THEN <<"wlf">> ELSE <<>>)
    \o (IF ~empty(wl["spine"]) THEN <<"spine">> ELSE <<>>)

\* the list of available data sets, appended in the order wlo, wlf, wlp, spine
DatasetTypes(wl) ==
    (IF ~empty(wl["wlo"]) THEN <<"wlo">> ELSE <<>>)
    \o (IF ~empty(wl["wlf"]) THEN <<"wlf">> ELSE <<>>)
    \o (IF ~empty(wl["wlp"]) THEN <<"wlp">> ELSE <<>>)
    \o (IF ~empty(wl["spine"]) THEN <<"spine">> ELSE <<>>)

\* the trend tables are generated in the order wlf, wlo, wlp, spine; the first
\* call that raises ends the formatting
TrendOrder == <<"wlf", "wlo", "wlp", "spine">>
FirstRaised(tr) ==
    LET bad == {j \in 1..Len(TrendOrder) : ~tr[TrendOrder[j]].ok}
    IN  IF bad = {} THEN 0 ELSE CHOOSE j \in bad : \A l \in bad : j <= l

\* a slip in the order of the statements: the trends generated after the
\* fill value went into the tables
_format_data_arrays_fill_first(df, zero_window) ==
    LET wl == FilledTables(df)
        tr == [k \in Types |-> _gen_S104_trends(wl[k], zero_window)]
    IN  IF FirstRaised(tr) # 0
        THEN Raised(tr[TrendOrder[FirstRaised(tr)]].error)
        ELSE Returned(
            [wl |-> wl,
             trend |-> [k \in Types |-> tr[k].value],
             position |-> [k \in Types |-> _gen_positions(wl[k])],
             max |-> DatasetMax(df),
             min |-> DatasetMin(df),
             dataset_types |-> DatasetTypes(wl)])

\* a slip in the keys of the trend dictionary: the forecast trends filed
\* under wlp and the prediction trends under wlf
_format_data_arrays_trend_keys(df, zero_window) ==
    LET tr == [k \in Types |-> _gen_S104_trends(df[k], zero_window)]
        wl == FilledTables(df)
        other(k) == IF k = "wlp" THEN "wlf" ELSE IF k = "wlf" THEN "wlp" ELSE k
    IN  IF FirstRaised(tr) # 0
        THEN Raised(tr[TrendOrder[FirstRaised(tr)]].error)
        ELSE Returned(
            [wl |-> wl,
             trend |-> [k \in Types |-> tr[other(k)].value],
             position |-> [k \in Types |-> _gen_positions(wl[k])],
             max |-> DatasetMax(df),
             min |-> DatasetMin(df),
             dataset_types |-> DatasetTypes(wl)])

_format_data_arrays(df, zero_window) ==
    LET tr == [k \in Types |-> _gen_S104_trends(df[k], zero_window)]
        wl == FilledTables(df)
    IN  IF FirstRaised(tr) # 0
        THEN Raised(tr[TrendOrder[FirstRaised(tr)]].error)
        ELSE Returned(
            [wl |-> wl,
             trend |-> [k \in Types |-> tr[k].value],
             position |-> [k \in Types |-> _gen_positions(wl[k])],
             max |-> DatasetMax(df),
             min |-> DatasetMin(df),
             dataset_types |-> DatasetTypes(wl)])

(* ---------------------------- binary layout writer --------------------- *)
\* str(n) for n >= 0, as a sequence of decimal digit characters
Digit(d) == <<"0", "1", "2", "3", "4", "5", "6", "7", "8", "9">>[d + 1]
RECURSIVE str(_)
str(n) == IF n < 10 THEN <<Digit(n)>> ELSE str(n \div 10) \o <<Digit(n % 10)>>

\* a slip in the numbering: the zero-based counter in the path
instance_group_path_zero_based(i) ==
    <<product_id, "/", product_id, ".0">> \o str(i)

\* '{product_id}/{product_id}.0{group_counter}' with group_counter = str(i+1);
\* a path is the sequence of its pieces
instance_group_path(i) ==
    <<product_id, "/", product_id, ".0">> \o str(i + 1)

\* a slip in the keys: the forecast taken for the prediction
wl_type_keys_swapped(data_type) ==
    IF data_type = "wlo" THEN 1
    ELSE IF data_type = "wlf" THEN 2
    ELSE 5

\* typeOfWaterLevelData of a data-type key
wl_type(data_type) ==
    IF data_type = "wlo" THEN 1
    ELSE IF data_type = "wlp" THEN 2
    ELSE 5

\* a slip that counts every key of the bundle, present or not
numInstances_all_keys(d) == Cardinality(DOMAIN d.wl)
\* the value written to numInstances: len(data['dataset_types'])
numInstances(d) == Len(d.dataset_types)
\* no_of_instances = len(data['dataset_types'])
no_of_instances(d) == Len(d.dataset_types)

\* product group attributes as loaded from the template
TemplateAttrs ==
    [maxDatasetHeight |-> Real(0), minDatasetHeight |-> Real(0),
     numInstances |-> 0]
TemplateFile == [attrs |-> TemplateAttrs, groups |-> <<>>]
\* a group right after h5_file.create_group: nothing set yet (an unset
\* attribute is the empty sequence, a set one the sequence of its value)
NewGroup ==
    [path |-> <<>>, typeOfWaterLevelData |-> <<>>, numberOfStations |-> <<>>,
     attributes |-> <<>>, positioning |-> <<>>]
GroupPaths(h5) == {h5.groups[j].path : j \in 1..Len(h5.groups)}

\* a slip in the order of two statements: numberOfStations set before
\* typeOfWaterLevelData
Steps_stations_first ==
    <<"create_group", "numberOfStations", "typeOfWaterLevelData",
      "create_attributes", "create_positioning_group">>
Steps ==
    <<"create_group", "typeOfWaterLevelData", "numberOfStations",
      "create_attributes", "create_positioning_group">>

NoArrays ==
    [wl |-> <<>>, trend |-> <<>>, position |-> <<>>, max |-> NaN,
     min |-> NaN, dataset_types |-> <<>>]

(* ---------------------------- inputs ----------------------------------- *)
Heights == {-1, 4}
CellValues == {NaN} \cup {Real(h) : h \in Heights}
Intervals == {900, 1200, 1800, 3600, 7200}
Shift(v, k) == IF isnan(v) THEN NaN ELSE Real(v[1] + k)
\* a table of r rows and c stations sampled every iv seconds; column j is the
\* first column s rotated by j-1 rows and raised by j-1
MkTable(r, c, iv, s) ==
    [index |-> [j \in 1..r |-> (j - 1) * iv],
     columns |-> [j \in 1..c |-> 100 + j],
     values |-> [row \in 1..r |->
                    [col \in 1..c |->
                        Shift(s[((row + col - 2) % r) + 1], col - 1)]]]
\* every table of at most maxrows rows: a table has timestamps only if it
\* has stations (the index is made of the stations' sample times), while a
\* station may have no sample at all
TablesUpTo(maxrows) ==
    UNION {{MkTable(r, c, iv, s) :
                c \in (IF r = 0 THEN 0 ELSE 1)..MaxCols, iv \in Intervals,
                s \in [1..r -> CellValues]} :
           r \in 0..maxrows}
SeriesTables == TablesUpTo(MaxRows)
TrendTables == TablesUpTo(MaxTrendRows)
\* position of a key in the fixed order wlo, wlf, wlp, spine
Rank(k) == CASE k = "wlo" -> 1 [] k = "wlf" -> 2 [] k = "wlp" -> 3
             [] k = "spine" -> 4
\* a plain half-hourly table, different for every key
Baseline(k) ==
    MkTable(2, 1 + (Rank(k) % 2), 1800, <<Real(Rank(k)), Real(Rank(k) + 1)>>)
\* the four tables _gen_data_table builds: any table for one key, the
\* baseline table or no data for the others
Inputs ==
    UNION {{[k \in Types |->
                IF k = focus THEN t
                ELSE IF k \in present THEN Baseline(k) ELSE EmptyFrame] :
              t \in SeriesTables, present \in SUBSET (Types \ {focus})} :
           focus \in Types}
ZeroWindow == {"raise", "nan"}
Thresholds == {DefaultThreshold, Rat(1, 2), Rat(0, 1)}
Slopes ==
    {NaN} \cup {Rat(n, 100) : n \in (0 - MaxSlope)..MaxSlope}
          \cup {Rat(n, 1) : n \in (0 - MaxSlope)..MaxSlope}

(* ---------------------------- state ------------------------------------ *)
VARIABLES
    pc,           \* where the generation run is
    data,         \* the four Series Tables built by _gen_data_table
    data_arrays,  \* the bundle returned by _format_data_arrays
    error,        \* the exception that ended the run, "" if none
    h5_file,      \* the output container
    i,            \* _create_groups: zero-based instance counter
    step,         \* _create_groups: index in Steps of the next step
    x,            \* _get_flags: slope and threshold
    flag,         \* _get_flags: result
    df_wl,        \* _gen_S104_trends: argument
    df_trend      \* _gen_S104_trends: result
vars == <<pc, data, data_arrays, error, h5_file, i, step, x, flag, df_wl,
          df_trend>>

NoData == [k \in Types |-> EmptyFrame]
NoCall == [slope |-> NaN, threshold |-> DefaultThreshold]

(* ---------------------------- generation run --------------------------- *)
Init ==
    /\ pc = "format"
    /\ data \in Inputs
    /\ data_arrays = NoArrays
    /\ error = ""
    /\ h5_file = TemplateFile
    /\ i = 0
    /\ step = 1
    /\ x = NoCall
    /\ flag = 0
    /\ df_wl = EmptyFrame
    /\ df_trend = Returned(EmptyFrame)

\* data_arrays = self._format_data_arrays(data)
FormatDataArrays ==
    /\ pc = "format"
    /\ \E zero_window \in ZeroWindow :
         LET res == _format_data_arrays(data, zero_window) IN
           IF res.ok
           THEN /\ data_arrays' = res.value
                /\ pc' = "metadata"
                /\ error' = error
           ELSE /\ error' = res.error
                /\ pc' = "error"
                /\ data_arrays' = data_arrays
    /\ UNCHANGED <<data, h5_file, i, step, x, flag, df_wl, df_trend>>

\* self._update_feature_metadata(h5_file, data_arrays), then _create_groups
\* reads no_of_instances and enters its loop
UpdateFeatureMetadata ==
    /\ pc = "metadata"
    /\ h5_file' = [h5_file EXCEPT !.attrs =
          [maxDatasetHeight |-> data_arrays.max,
           minDatasetHeight |-> data_arrays.min,
           numInstances |-> numInstances(data_arrays)]]
    /\ pc' = IF no_of_instances(data_arrays) = 0 THEN "done"
             ELSE "create_groups"
    /\ UNCHANGED <<data, data_arrays, error, i, step, x, flag, df_wl, df_trend>>

\* the loop bookkeeping after a step of instance i
Advance ==
    IF step < Len(Steps)
    THEN /\ step' = step + 1
         /\ i' = i
         /\ pc' = pc
    ELSE /\ step' = 1
         /\ i' = i + 1
         /\ pc' = IF i + 1 < no_of_instances(data_arrays)
                  THEN "create_groups" ELSE "done"

data_type == data_arrays.dataset_types[i + 1]
instance_wl == data_arrays.wl[data_type]
instance_trend == data_arrays.trend[data_type]
instance_position == data_arrays.position[data_type]
\* what the attribute-creation collaborator is handed: the value table,
\* then the trend table, and the keyword group_counter
_create_attributes(values, trends, group_counter) ==
    [wl |-> values, trend |-> trends, group_counter |-> group_counter]
\* what the positioning-group collaborator is handed
_create_positioning_group(lat, lon) == [lat |-> lat, lon |-> lon]
SetInGroup(field, v) ==
    h5_file' = [h5_file EXCEPT !.groups[Len(h5_file.groups)][field] = <<v>>]

\* instance_group = h5_file.create_group(instance_group_path)
CreateInstanceGroup ==
    /\ pc = "create_groups" /\ Steps[step] = "create_group"
    /\ IF instance_group_path(i) \in GroupPaths(h5_file)
       THEN /\ pc' = "aborted"
            /\ error' = "ValueError"
            /\ UNCHANGED <<h5_file, i, step>>
       ELSE /\ h5_file' = [h5_file EXCEPT !.groups =
                 Append(@, [NewGroup EXCEPT !.path = instance_group_path(i)])]
            /\ Advance
            /\ error' = error
    /\ UNCHANGED <<data, data_arrays, x, flag, df_wl, df_trend>>

\* instance_group.attrs.create('typeOfWaterLevelData', wl_type, ...)
SetTypeOfWaterLevelData ==
    /\ pc = "create_groups" /\ Steps[step] = "typeOfWaterLevelData"
    /\ SetInGroup("typeOfWaterLevelData", wl_type(data_type))
    /\ Advance
    /\ UNCHANGED <<data, data_arrays, error, x, flag, df_wl, df_trend>>

\* instance_group.attrs.create('numberOfStations', instance_wl.shape[1])
SetNumberOfStations ==
    /\ pc = "create_groups" /\ Steps[step] = "numberOfStations"
    /\ SetInGroup("numberOfStations", NCols(instance_wl))
    /\ Advance
    /\ UNCHANGED <<data, data_arrays, error, x, flag, df_wl, df_trend>>

\* self._create_attributes(h5_file, instance_group, instance_wl,
\*                         instance_trend, group_counter=i)
CreateAttributes ==
    /\ pc = "create_groups" /\ Steps[step] = "create_attributes"
    /\ SetInGroup("attributes",
          _create_attributes(instance_wl, instance_trend, i))
    /\ Advance
    /\ UNCHANGED <<data, data_arrays, error, x, flag, df_wl, df_trend>>

\* self._create_positioning_group(h5_file, instance_group_path,
\*     instance_position['lat'], instance_position['lon'])
CreatePositioningGroup ==
    /\ pc = "create_groups" /\ Steps[step] = "create_positioning_group"
    /\ SetInGroup("positioning",
          _create_positioning_group(instance_position.lat,
                                    instance_position.lon))
    /\ Advance
    /\ UNCHANGED <<data, data_arrays, error, x, flag, df_wl, df_trend>>

\* the step about to run raises instead (a failed container write)
WriteFails ==
    /\ pc = "create_groups"
    /\ pc' = "aborted"
    /\ error' = "BinaryWriteError"
    /\ UNCHANGED <<data, data_arrays, h5_file, i, step, x, flag, df_wl,
                   df_trend>>

Next ==
    \/ FormatDataArrays
    \/ UpdateFeatureMetadata
    \/ CreateInstanceGroup
    \/ SetTypeOfWaterLevelData
    \/ SetNumberOfStations
    \/ CreateAttributes
    \/ CreatePositioningGroup
    \/ WriteFails

Spec == Init /\ [][Next]_vars

(* ---------------------------- the trend classifier alone --------------- *)
InitFlags ==
    /\ pc = "classify"
    /\ x \in [slope : Slopes, threshold : Thresholds]
    /\ flag = 0
    /\ data = NoData
    /\ data_arrays = NoArrays
    /\ error = ""
    /\ h5_file = TemplateFile
    /\ i = 0
    /\ step = 1
    /\ df_wl = EmptyFrame
    /\ df_trend = Returned(EmptyFrame)

GetFlags ==
    /\ pc = "classify"
    /\ flag' = _get_flags(x.slope, x.threshold)
    /\ pc' = "classified"
    /\ UNCHANGED <<data, data_arrays, error, h5_file, i, step, x, df_wl,
                   df_trend>>

NextFlags == GetFlags

SpecFlags == InitFlags /\ [][NextFlags]_vars

(* ---------------------------- the trend series generator alone --------- *)
InitTrends ==
    /\ pc = "trend"
    /\ df_wl \in TrendTables
    /\ df_trend = Returned(EmptyFrame)
    /\ x = NoCall
    /\ flag = 0
    /\ data = NoData
    /\ data_arrays = NoArrays
    /\ error = ""
    /\ h5_file = TemplateFile
    /\ i = 0
    /\ step = 1

GenS104Trends ==
    /\ pc = "trend"
    /\ \E zero_window \in ZeroWindow :
          df_trend' = _gen_S104_trends(df_wl, zero_window)
    /\ pc' = "trended"
    /\ UNCHANGED <<data, data_arrays, error, h5_file, i, step, x, flag, df_wl>>

NextTrends == GenS104Trends

SpecTrends == InitTrends /\ [][NextTrends]_vars

(* ======================================================================= *)
(* Properties                                                              *)
(* ======================================================================= *)
\* _format_data_arrays has returned a bundle
HasBundle == pc \in {"metadata", "create_groups", "done", "aborted"}
FixedOrder == <<"wlo", "wlf", "wlp", "spine">>
NonEmpty(df) == NRows(df) >= 1 /\ NCols(df) >= 1
IsPresent(k) == NonEmpty(data[k])
\* the present keys in the fixed order, from the raw tables
PresentInOrder == SelectSeq(FixedOrder, IsPresent)
AllMissing(df) ==
    \A r \in 1..NRows(df) : \A c \in 1..NCols(df) : isnan(Cell(df, r, c))
\* the non-missing raw heights of all four tables
RawHeights ==
    UNION {UNION {{Cell(data[k], r, c)[1] :
                     c \in {cc \in 1..NCols(data[k]) :
                               ~isnan(Cell(data[k], r, cc))}} :
                  r \in 1..NRows(data[k])} :
           k \in Types}

\* C1: dataset_types holds a key iff its Series Table has at least one row
\* and one column (whatever its cells), holds no key twice and keeps the
\* order wlo < wlf < wlp < spine.
C1_DatasetTypesFixedOrder ==
    HasBundle =>
        LET dt == data_arrays.dataset_types IN
        /\ \A k \in Types :
              (\E j \in 1..Len(dt) : dt[j] = k) <=> NonEmpty(data[k])
        /\ \A j1, j2 \in 1..Len(dt) :
              j1 < j2 => Rank(dt[j1]) < Rank(dt[j2])
C1_Witness ==
    /\ pc = "metadata"
    /\ data_arrays.dataset_types = <<"wlf", "wlp", "spine">>
    /\ AllMissing(data["wlp"])
    /\ empty(data["wlo"])

\* C2: after _create_groups completes the groups are exactly
\* WaterLevel/WaterLevel.01 .. .0n in this order, group .0i holds the i-th
\* present type of the fixed order, and .01 carries numberOfStations.
ExpectedPath(j) ==
    <<"WaterLevel", "/", "WaterLevel", ".0", <<"1", "2", "3", "4">>[j]>>
C2_ContiguousInstanceGroups ==
    pc = "done" =>
        LET n == Len(data_arrays.dataset_types)
            g == h5_file.groups
        IN  /\ Len(g) = n
            /\ n = Len(PresentInOrder)
            /\ \A j \in 1..n :
                  /\ g[j].path = ExpectedPath(j)
                  /\ g[j].attributes # <<>>
                  /\ g[j].attributes[1].wl =
                        fillna(data[PresentInOrder[j]], FillValue)
                  /\ g[j].numberOfStations =
                        <<NCols(data[PresentInOrder[j]])>>
C2_Witness ==
    /\ pc = "done"
    /\ data_arrays.dataset_types = <<"wlo", "spine">>
    /\ Len(h5_file.groups) = 2
    /\ h5_file.groups[2].path = ExpectedPath(2)
    /\ h5_file.groups[2].attributes[1].wl = data_arrays.wl["spine"]

\* C3: when some table holds a non-missing value, the bundle's max is the
\* greatest and its min the least non-missing raw value of the four tables.
C3_ExtremaOverRawData ==
    (HasBundle /\ RawHeights # {}) =>
        /\ ~isnan(data_arrays.max) /\ ~isnan(data_arrays.min)
        /\ data_arrays.max[1] \in RawHeights
        /\ data_arrays.min[1] \in RawHeights
        /\ \A h \in RawHeights :
              data_arrays.min[1] <= h /\ h <= data_arrays.max[1]

\* C4: four empty Series Tables end the formatting in an error: no bundle,
\* no product attribute modified, no group created.
AllEmpty == \A k \in Types : empty(data[k])
C4_AllEmptyFails ==
    (pc # "format" /\ AllEmpty) =>
        /\ pc = "error"
        /\ data_arrays = NoArrays
        /\ h5_file = TemplateFile

\* C5: a non-empty Series Table with fewer than two timestamps ends
\* _format_data_arrays in an error, whatever the other tables hold: no bundle
\* is returned and nothing is written.
HasShortTable == \E k \in Types : NonEmpty(data[k]) /\ NRows(data[k]) < 2
C5_ShortTableRaises ==
    (pc # "format" /\ HasShortTable) =>
        /\ pc = "error"
        /\ error \in {"IndexError", "ValueError"}
        /\ data_arrays = NoArrays
        /\ h5_file = TemplateFile
C5_Witness ==
    /\ pc = "error"
    /\ error = "IndexError"
    /\ NRows(data["spine"]) = 1 /\ NCols(data["spine"]) = 2
    /\ NRows(data["wlo"]) = 2 /\ NRows(data["wlf"]) = 2
    /\ empty(data["wlp"])

\* C6: _get_flags returns one flag of 0..3 for every slope: 3 for a NaN
\* slope, 2 iff slope > threshold, 1 iff slope < -threshold, 0 otherwise; a
\* slope equal to the threshold or to its negation is STEADY.
C6_ClassifierTotalAndStrict ==
    pc = "classified" =>
        LET s == x.slope
            t == x.threshold
        IN  /\ flag \in 0..3
            /\ (flag = 3) <=> (s = NaN)
            /\ s # NaN =>
                 LET above == s[1] * t[2] > t[1] * s[2]
                     below == s[1] * t[2] < (0 - t[1]) * s[2]
                 IN  /\ (flag = 2) <=> above
                     /\ (flag = 1) <=> below
                     /\ (flag = 0) <=> (~above /\ ~below)
                     /\ (s[1] * t[2] = t[1] * s[2]) => flag = 0
                     /\ (s[1] * t[2] = (0 - t[1]) * s[2]) => flag = 0
C6_Witness ==
    /\ pc = "classified"
    /\ x.threshold = DefaultThreshold
    /\ x.slope = Rat(-20, 100)
    /\ flag = 0

\* C7: in the returned bundle a value-table cell is -9999 where the raw cell
\* was missing and the raw value elsewhere, index and columns unchanged; the
\* trend tables hold flags 0..3 only and are made from the raw tables (a
\* raw missing cell has flag UNKNOWN, not a slope through -9999).
C7_FillValueOnlyInValueTables ==
    HasBundle =>
        \A k \in Types :
            /\ data_arrays.wl[k].index = data[k].index
            /\ data_arrays.wl[k].columns = data[k].columns
            /\ Len(data_arrays.wl[k].values) = NRows(data[k])
            /\ \A r \in 1..NRows(data[k]) :
                  /\ Len(data_arrays.wl[k].values[r]) = NCols(data[k])
                  /\ \A c \in 1..NCols(data[k]) :
                        /\ Cell(data_arrays.wl[k], r, c) =
                              (IF Cell(data[k], r, c) = NaN THEN <<-9999, 1>>
                               ELSE Cell(data[k], r, c))
                        /\ Cell(data_arrays.trend[k], r, c) \in 0..3
                        /\ Cell(data[k], r, c) = NaN
                              => Cell(data_arrays.trend[k], r, c) = 3
C7_Witness ==
    /\ pc = "metadata"
    /\ NRows(data["wlo"]) = 2 /\ NCols(data["wlo"]) = 2
    /\ timestamps_per_hour(data["wlo"]) = 2
    /\ Cell(data["wlo"], 2, 1) = NaN
    /\ Cell(data["wlo"], 1, 1) = <<4, 1>>
    /\ Cell(data_arrays.wl["wlo"], 2, 1) = <<-9999, 1>>
    /\ Cell(data_arrays.wl["wlo"], 1, 1) = <<4, 1>>
    /\ Cell(data_arrays.trend["wlo"], 2, 1) = 3

\* C8: typeOfWaterLevelData of an instance group depends on its data-type
\* key only: wlo -> 1, wlp -> 2, wlf -> 5, spine -> 5, always a code of the
\* enumeration.
CodeOfKey(k) ==
    CASE k = "wlo" -> 1 [] k = "wlp" -> 2 [] k = "wlf" -> 5 [] k = "spine" -> 5
C8_TypeOfWaterLevelData ==
    pc \in {"create_groups", "done", "aborted"} =>
        \A j \in 1..Len(h5_file.groups) :
            LET g == h5_file.groups[j] IN
            /\ (j < Len(h5_file.groups) \/ pc = "done")
                  => g.typeOfWaterLevelData # <<>>
            /\ g.typeOfWaterLevelData # <<>> =>
                  /\ g.typeOfWaterLevelData[1] = CodeOfKey(PresentInOrder[j])
                  /\ g.typeOfWaterLevelData[1] \in EnumCodes
C8_Witness ==
    /\ pc = "done"
    /\ Len(h5_file.groups) = 4
    /\ [j \in 1..4 |-> h5_file.groups[j].typeOfWaterLevelData[1]]
          = <<1, 5, 2, 5>>

\* C9: after a successful write numInstances is the number of present data
\* types and the number of instance groups, and maxDatasetHeight and
\* minDatasetHeight are the bundle's max and min.
C9_ProductAttributes ==
    pc = "done" =>
        /\ h5_file.attrs.numInstances = Len(data_arrays.dataset_types)
        /\ h5_file.attrs.numInstances = Cardinality(GroupPaths(h5_file))
        /\ h5_file.attrs.numInstances = Len(h5_file.groups)
        /\ h5_file.attrs.maxDatasetHeight = data_arrays.max
        /\ h5_file.attrs.minDatasetHeight = data_arrays.min
C9_Witness ==
    /\ pc = "done"
    /\ h5_file.attrs.numInstances = 2
    /\ Len(h5_file.groups) = 2
    /\ h5_file.attrs.maxDatasetHeight = <<5, 1>>
    /\ h5_file.attrs.minDatasetHeight = <<-1, 1>>

\* C10: for a table of at least two rows whose window is derivable the
\* Trend Table has the index and the columns of the input, and for a table
\* without rows the result is an empty table and no error.
C10_TrendShape ==
    pc = "trended" =>
        /\ (NRows(df_wl) >= 2 /\ timestamps_per_hour(df_wl) >= 1) =>
              /\ df_trend.ok
              /\ df_trend.value.index = df_wl.index
              /\ df_trend.value.columns = df_wl.columns
              /\ Len(df_trend.value.values) = NRows(df_wl)
              /\ \A r \in 1..NRows(df_wl) :
                    Len(df_trend.value.values[r]) = NCols(df_wl)
        /\ NRows(df_wl) = 0 =>
              /\ df_trend.ok
              /\ empty(df_trend.value)
C10_Witness ==
    /\ pc = "trended"
    /\ NRows(df_wl) = 4 /\ NCols(df_wl) = 2
    /\ timestamps_per_hour(df_wl) = 3
    /\ df_trend.ok
    /\ df_trend.value.index = <<0, 1200, 2400, 3600>>
    /\ df_trend.value.values[1][1] = 3
    /\ df_trend.value.values[2][1] = 2
    /\ df_trend.value.values[3][2] = 1

\* C11: everything written for instance i belongs to dataset_types[i]:
\* numberOfStations is the column count of that type's value table, and the
\* value table, the trend table and the positions handed to the collaborators
\* are those made from that type's Series Table, value table first, with the
\* zero-based counter.
C11_InstanceBelongsToOneType ==
    pc \in {"create_groups", "done", "aborted"} =>
        \A j \in 1..Len(h5_file.groups) :
            LET k == data_arrays.dataset_types[j]
                g == h5_file.groups[j]
            IN  /\ g.numberOfStations # <<>> =>
                      /\ g.numberOfStations[1] = NCols(data_arrays.wl[k])
                      /\ g.numberOfStations[1] = NCols(data[k])
                /\ g.attributes # <<>> =>
                      /\ g.attributes[1].wl = fillna(data[k], FillValue)
                      /\ g.attributes[1].trend
                            = _gen_S104_trends(data[k], "nan").value
                      /\ g.attributes[1].trend.index = data[k].index
                      /\ g.attributes[1].trend.columns = data[k].columns
                      /\ g.attributes[1].group_counter = j - 1
                /\ g.positioning # <<>> =>
                      /\ g.positioning[1].lat =
                            [c \in 1..NCols(data[k]) |-> Lat(data[k].columns[c])]
                      /\ g.positioning[1].lon =
                            [c \in 1..NCols(data[k]) |-> Lon(data[k].columns[c])]
C11_Witness ==
    /\ pc = "done"
    /\ data_arrays.dataset_types = <<"wlf", "wlp", "spine">>
    /\ Len(h5_file.groups) = 3
    /\ h5_file.groups[1].numberOfStations = <<1>>
    /\ h5_file.groups[2].numberOfStations = <<2>>
    /\ h5_file.groups[2].attributes[1].group_counter = 1
    /\ h5_file.groups[2].attributes[1].trend = data_arrays.trend["wlp"]
    /\ h5_file.groups[2].attributes[1].trend # data_arrays.trend["wlf"]
    /\ h5_file.groups[2].attributes[1].wl # data_arrays.wl["wlf"]
    /\ Len(h5_file.groups[2].positioning[1].lat) = 2


\* C12: with a window of w >= 2 samples, a row whose centered window (w \div 2
\* rows before it, (w - 1) \div 2 rows after it) leaves the series or holds a
\* missing sample has flag UNKNOWN; a flag 0, 1 or 2 comes only from a window
\* inside the series without a missing sample and classifies the
\* least-squares slope of its values against 0..w-1 with threshold 0.2.
\* w * w * covariance and w * w * variance of the window starting at row lo
WindowCov(c, lo, w) ==
    LET sx == SumTo([j \in 1..w |-> j - 1], w)
        sy == SumTo([j \in 1..w |-> Cell(df_wl, lo + j - 1, c)[1]], w)
    IN  SumTo([j \in 1..w |->
                 (w * (j - 1) - sx) * (w * Cell(df_wl, lo + j - 1, c)[1] - sy)],
              w)
WindowVar(w) ==
    LET sx == SumTo([j \in 1..w |-> j - 1], w)
    IN  SumTo([j \in 1..w |-> (w * (j - 1) - sx) * (w * (j - 1) - sx)], w)
WindowComplete(r, c, w) ==
    /\ r - (w \div 2) >= 1
    /\ r + ((w - 1) \div 2) <= NRows(df_wl)
    /\ \A q \in (r - (w \div 2))..(r + ((w - 1) \div 2)) :
          Cell(df_wl, q, c) # NaN
C12_CenteredWindowFlags ==
    (pc = "trended" /\ NRows(df_wl) >= 2 /\ df_trend.ok) =>
        LET w == 3600 \div (df_wl.index[2] - df_wl.index[1]) IN
        w >= 2 =>
            \A r \in 1..NRows(df_wl) : \A c \in 1..NCols(df_wl) :
                LET f == df_trend.value.values[r][c] IN
                /\ ~WindowComplete(r, c, w) => f = 3
                /\ f \in {0, 1, 2} => WindowComplete(r, c, w)
                /\ WindowComplete(r, c, w) =>
                      LET cov == WindowCov(c, r - (w \div 2), w)
                          var == WindowVar(w)
                      IN  f = (IF 5 * cov > var THEN 2
                               ELSE IF 5 * cov < 0 - var THEN 1
                               ELSE 0)
C12_Witness ==
    /\ pc = "trended"
    /\ df_trend.ok
    /\ df_wl.index = <<0, 1200, 2400, 3600>>
    /\ [r \in 1..4 |-> Cell(df_wl, r, 1)] = <<<<4, 1>>, <<4, 1>>, <<-1, 1>>, NaN>>
    /\ [r \in 1..4 |-> df_trend.value.values[r][1]] = <<3, 1, 3, 3>>


\* C13: _create_groups handles the instances in dataset_types order and, in
\* each, creates the group, then sets typeOfWaterLevelData, then
\* numberOfStations, then creates the attributes, then the positioning group.
\* A failing step aborts the write there: no later step of that or of a later
\* instance runs, nothing written is rolled back, nothing is retried.
Written(g) ==
    <<g.typeOfWaterLevelData # <<>>, g.numberOfStations # <<>>,
      g.attributes # <<>>, g.positioning # <<>>>>
\* how many things have been written: groups and what was put in them
WriteCount(h5) ==
    Len(h5.groups)
    + SumTo([j \in 1..Len(h5.groups) |->
                Cardinality({a \in 1..4 : Written(h5.groups[j])[a]})],
            Len(h5.groups))
InWriteOrder ==
    pc \in {"create_groups", "done", "aborted"} =>
        /\ Len(h5_file.groups) <= Len(data_arrays.dataset_types)
        /\ \A j \in 1..Len(h5_file.groups) :
              LET g == h5_file.groups[j] IN
              /\ g.path = ExpectedPath(j)
              /\ \A a, b \in 1..4 : (a < b /\ Written(g)[b]) => Written(g)[a]
              /\ j < Len(h5_file.groups) => \A a \in 1..4 : Written(g)[a]
              /\ Written(g)[1] => g.typeOfWaterLevelData[1]
                                    = CodeOfKey(data_arrays.dataset_types[j])
              /\ Written(g)[3] => g.attributes[1].group_counter = j - 1
        /\ pc = "done" =>
              /\ Len(h5_file.groups) = Len(data_arrays.dataset_types)
              /\ \A j \in 1..Len(h5_file.groups) :
                    \A a \in 1..4 : Written(h5_file.groups[j])[a]
OneStepOrAbort ==
    /\ pc = "aborted" => FALSE
    /\ (pc = "create_groups" /\ pc' = "aborted") => h5_file' = h5_file
    /\ (pc = "create_groups" /\ pc' # "aborted") =>
          /\ WriteCount(h5_file') = WriteCount(h5_file) + 1
          /\ Len(h5_file'.groups) >= Len(h5_file.groups)
          /\ \A j \in 1..Len(h5_file.groups) :
                /\ h5_file'.groups[j].path = h5_file.groups[j].path
                /\ \A f \in {"typeOfWaterLevelData", "numberOfStations",
                             "attributes", "positioning"} :
                      h5_file.groups[j][f] # <<>> =>
                          h5_file'.groups[j][f] = h5_file.groups[j][f]
C13_OrderedStepsAbortOnFailure ==
    [](InWriteOrder) /\ [][OneStepOrAbort]_vars
C13_Witness ==
    /\ pc = "aborted"
    /\ error = "BinaryWriteError"
    /\ Len(data_arrays.dataset_types) = 3
    /\ Len(h5_file.groups) = 2
    /\ \A a \in 1..4 : Written(h5_file.groups[1])[a]
    /\ Written(h5_file.groups[2]) = <<TRUE, TRUE, FALSE, FALSE>>


====
